---- MODULE Spec2Model ----
(***************************************************************************)
(* Model of the GCC plugin of src/optimizer_plugin.c: plugin_init builds   *)
(* the callback parameters, the PLUGIN_FINISH callback runs                *)
(* my_optimize_func on the assembly file: path derivation, optional        *)
(* backup, the external rewriter, the in-place replacement and cleanup.    *)
(* Strings are sequences of one-character strings; the file system is a    *)
(* function from paths to contents; FILE streams are records.              *)
(***************************************************************************)
EXTENDS Integers, Sequences, FiniteSets, TLC

\* ------------------------------------------------------------------ bounds
MaxLen == 3
MaxContent == 2
MaxCalls == 2

\* --------------------------------------------------------------- constants
\* sizeof(buffer) of both copy loops
BUFFER_SIZE == 4096

NUL == "NUL"
PathChars == {".", "s"}
\* the byte the compiler's output is made of (the rewriters add "y")
Bytes == {"x"}

SeqsUpTo(S, n) == UNION {[1..k -> S] : k \in 0..n}

Min(a, b) == IF a < b THEN a ELSE b

\* the "no assembly output" path of the host compiler
DevNull == <<"/", "d", "e", "v", "/", "n", "u", "l", "l">>
DotS == <<".", "s">>
OptSuffix == <<".", "o", "p", "t", ".", "s">>
CopySuffix == <<".", "c", "o", "p", "y", ".", "s">>

\* a const char *: NULL or a string
NullPtr == [isNull |-> TRUE, s |-> <<>>]
Str(s) == [isNull |-> FALSE, s |-> s]

FileNames == {NullPtr, Str(DevNull)} \cup {Str(s) : s \in SeqsUpTo(PathChars, MaxLen)}
Contents == SeqsUpTo(Bytes, MaxContent)

\* ------------------------------------------------------- C string helpers
\* the character at index i (1-based) of a string seen as a NUL-terminated array
CharAt(s, i) == IF i <= Len(s) THEN s[i] ELSE NUL

\* the C string held by a byte array: the bytes before the first NUL
RECURSIVE CStr(_)
CStr(bytes) ==
    IF bytes = <<>> \/ Head(bytes) = NUL THEN <<>>
    ELSE <<Head(bytes)>> \o CStr(Tail(bytes))

\* strcmp(a, b) == 0 on two C strings
StrEq(a, b) == a = b

\* tolower on the characters the option values use
ToLower(c) ==
    CASE c = "T" -> "t" [] c = "R" -> "r" [] c = "U" -> "u" [] c = "E" -> "e"
      [] OTHER -> c

\* strcasecmp(a, b) == 0
StrCaseEq(a, b) ==
    /\ Len(a) = Len(b)
    /\ \A i \in 1..Len(a) : ToLower(a[i]) = ToLower(b[i])

\* bytes written into dest at offset off (0-based), the array growing to the
\* highest index written
WriteAt(dest, off, data) ==
    SubSeq(dest, 1, off) \o data \o SubSeq(dest, off + Len(data) + 1, Len(dest))

\* strncpy(dest, src, n): exactly n bytes, NUL-padded past the end of src
Strncpy(dest, src, n) == WriteAt(dest, 0, [i \in 1..n |-> CharAt(src, i)])

\* strcpy(dest + off, src): the characters of src and the terminating NUL
Strcpy(dest, off, src) == WriteAt(dest, off, src \o <<NUL>>)

\* ------------------------------------------------------- path derivation
\* the early-return test of lines 47-49
NoAsmFile(filename) == filename.isNull \/ StrEq(filename.s, DevNull)

NotDotSLoose(s) == Len(s) < 1 \/ ~StrEq(SubSeq(s, Len(s), Len(s)), <<"s">>)

\* the early-return test of lines 54-58
NotDotS(s) == Len(s) < 2 \/ ~StrEq(SubSeq(s, Len(s) - 1, Len(s)), DotS)

OptAlloc(len) == len + 5

CopyAllocShort(len) == len + 5

CopyAlloc(len) == len + 6

\* fopen(p, "a"): the file is created when missing and never truncated
FopenA(f, p) == [q \in DOMAIN f \cup {p} |-> IF q \in DOMAIN f THEN f[q] ELSE <<>>]

\* fopen(p, "w") succeeding: the file is created or truncated
FopenW(f, p) == [q \in DOMAIN f \cup {p} |-> IF q = p THEN <<>> ELSE f[q]]

RemoveWhenKept(k) == k

\* the test of line 152: remove the optimized file unless files are kept
RemoveOptimized(k) == ~k

\* a heap array: its allocated size and the bytes written so far
NoBuf == [size |-> 0, bytes |-> <<>>]

DeriveOptimized(s) ==
    [size |-> OptAlloc(Len(s)),
     bytes |-> Strcpy(Strncpy(<<>>, s, Len(s) - 2), Len(s) - 2, OptSuffix)]

DeriveCopy(s) ==
    [size |-> CopyAlloc(Len(s)),
     bytes |-> Strcpy(Strncpy(<<>>, s, Len(s) - 2), Len(s) - 2, CopySuffix)]

\* --------------------------------------------------------- the rewriter
\* two external rewriters: ToY turns every byte into y (idempotent), Drop
\* removes the first byte (not idempotent)
Rewriters == {"ToY", "Drop"}

Rewrite(r, c) ==
    IF r = "ToY" THEN [i \in 1..Len(c) |-> "y"]
    ELSE IF c = <<>> THEN <<>> ELSE Tail(c)

\* wait statuses system() returns: 0, or exit code 1 (1 << 8)
ExitStatuses == {0, 256}

RewriterFailedExitCode(r) == r = 1

\* the test of line 119
RewriterFailed(r) == r # 0

\* ----------------------------------------------------------- plugin args
Key_disable == <<"d", "i", "s", "a", "b", "l", "e">>
Key_keep == <<"k", "e", "e", "p", "-", "f", "i", "l", "e", "s">>
V_true == <<"t", "r", "u", "e">>
V_1 == <<"1">>

Arg(k, v) == [key |-> k, value |-> v]

ArgVectors ==
    { <<>>,
      <<Arg(Key_keep, <<"1">>)>>,
      <<Arg(Key_keep, <<"T", "r", "u", "e">>)>>,
      <<Arg(Key_keep, <<"0">>)>>,
      <<Arg(Key_disable, <<"T", "R", "U", "E">>)>>,
      <<Arg(Key_keep, <<"1">>), Arg(Key_disable, <<"1">>)>>,
      <<Arg(Key_disable, <<"0">>), Arg(Key_keep, <<"t", "r", "u", "e">>)>> }

IsTrue(v) == StrCaseEq(v, V_true) \/ StrCaseEq(v, V_1)

\* the loop of lines 182-197 from argument i on: whether it returns early
\* (disable) and the keep_files it leaves
RECURSIVE ParseArgs(_, _, _)
ParseArgs(argv, i, keep) ==
    IF i > Len(argv) THEN [disabled |-> FALSE, keep_files |-> keep]
    ELSE IF StrEq(argv[i].key, Key_disable) /\ IsTrue(argv[i].value)
         THEN [disabled |-> TRUE, keep_files |-> keep]
    ELSE IF StrEq(argv[i].key, Key_keep) /\ IsTrue(argv[i].value)
         THEN ParseArgs(argv, i + 1, TRUE)
    ELSE ParseArgs(argv, i + 1, keep)

\* ------------------------------------------------------------------ state
VARIABLES
    pc,                 \* position in plugin_init / callback / my_optimize_func
    registered,         \* register_callback was called
    my_params,          \* the heap object: [valid, keep_files]
    asm_file_name,      \* global_options.x_asm_file_name
    rewriter,           \* which external rewriter $GDK/tools/optimize_lst.py is
    fs,                 \* file system: path -> content
    streams,            \* open FILE streams: name -> [path, pos, err]
    filename_optimized, \* heap array of line 61
    filename_copy,      \* heap array of line 72
    ret,                \* result of system()
    call,               \* what the running (or last) call did
    prev,               \* how the call before it ended
    calls               \* number of calls of my_optimize_func so far

vars == <<pc, registered, my_params, asm_file_name, rewriter, fs, streams,
          filename_optimized, filename_copy, ret, call, prev, calls>>

NoStreams == [n \in {} |-> 0]

NoCall ==
    [outcome |-> "none", entry_fs |-> NoStreams, keep83 |-> "unread",
     keep152 |-> "unread", invoked |-> FALSE, wrote |-> FALSE,
     written |-> <<>>, optimized |-> <<>>, src_opened_w |-> FALSE,
     open_failed |-> "none", fault |-> FALSE]

\* the paths the call works on
filename == asm_file_name.s
OptPath == CStr(filename_optimized.bytes)
CopyPath == CStr(filename_copy.bytes)

Exists(p) == p \in DOMAIN fs

\* the file system with path p holding content c
Put(f, p, c) == [q \in DOMAIN f \cup {p} |-> IF q = p THEN c ELSE f[q]]
\* the file system without path p
Remove(f, p) == [q \in DOMAIN f \ {p} |-> f[q]]

OpenStream(n, p) == [m \in DOMAIN streams \cup {n} |->
                        IF m = n THEN [path |-> p, pos |-> 0, err |-> FALSE]
                        ELSE streams[m]]
CloseStreams(ns) == [m \in DOMAIN streams \ ns |-> streams[m]]

\* what a read of my_params->keep_files can yield: the stored flag, or any
\* value once the object has been freed
ReadKeepFiles == IF my_params.valid THEN {my_params.keep_files} ELSE BOOLEAN

\* fread(buffer, 1, sizeof(buffer), st): the count returned and the error flag
FreadResults(st) ==
    LET avail == Min(Len(fs[st.path]) - st.pos, BUFFER_SIZE) IN
    IF st.err THEN {[n |-> 0, err |-> TRUE]}
    ELSE {[n |-> avail, err |-> FALSE]} \cup {[n |-> k, err |-> TRUE] : k \in 0..(avail - 1)}

\* fwrite(buffer, 1, n, st): the bytes that reach the file and the error flag
FwriteResults(st, n) ==
    IF st.err THEN {[n |-> 0, err |-> TRUE]}
    ELSE {[n |-> n, err |-> FALSE]} \cup {[n |-> k, err |-> TRUE] : k \in 0..(n - 1)}

\* return from my_optimize_func to the host ("aborted": the process died)
Return(outcome, c) ==
    /\ pc' = IF outcome = "aborted" THEN "aborted" ELSE "idle"
    /\ call' = [c EXCEPT !.outcome = outcome]
    /\ filename_optimized' = NoBuf
    /\ filename_copy' = NoBuf

Init ==
    /\ pc = "load"
    /\ registered = FALSE
    /\ my_params = [valid |-> FALSE, keep_files |-> FALSE]
    /\ asm_file_name \in FileNames
    /\ rewriter \in Rewriters
    /\ \E c \in Contents :
          fs = IF asm_file_name.isNull THEN NoStreams
               ELSE [p \in {asm_file_name.s} |-> c]
    /\ streams = NoStreams
    /\ filename_optimized = NoBuf
    /\ filename_copy = NoBuf
    /\ ret = 0
    /\ call = NoCall
    /\ prev = NoCall
    /\ calls = 0

\* plugin_init, lines 170-202
plugin_init ==
    /\ pc = "load"
    /\ \E version_ok \in BOOLEAN, argv \in ArgVectors :
          IF ~version_ok
          THEN /\ pc' = "exit"
               /\ UNCHANGED <<registered, my_params>>
          ELSE LET r == ParseArgs(argv, 1, FALSE) IN
               /\ my_params' = [valid |-> TRUE, keep_files |-> r.keep_files]
               /\ registered' = ~r.disabled
               /\ pc' = IF r.disabled THEN "exit" ELSE "idle"
    /\ UNCHANGED <<asm_file_name, rewriter, fs, streams, filename_optimized,
                   filename_copy, ret, call, prev, calls>>

\* callback, lines 164-167: the host fires the registered event
callback ==
    /\ pc = "idle"
    /\ registered
    /\ calls < MaxCalls
    /\ pc' = "check"
    /\ calls' = calls + 1
    /\ prev' = [NoCall EXCEPT !.outcome = call.outcome, !.fault = call.fault,
                              !.wrote = call.wrote]
    /\ call' = [NoCall EXCEPT !.outcome = "running", !.entry_fs = fs]
    /\ ret' = 0
    /\ UNCHANGED <<registered, my_params, asm_file_name, rewriter, fs, streams,
                   filename_optimized, filename_copy>>

\* my_optimize_func, lines 47-58: the two skips
CheckName ==
    /\ pc = "check"
    /\ IF NoAsmFile(asm_file_name) THEN Return("skip_none", call)
       ELSE IF NotDotS(filename) THEN Return("skip_suffix", call)
       ELSE /\ pc' = "derive"
            /\ UNCHANGED <<call, filename_optimized, filename_copy>>
    /\ UNCHANGED <<registered, my_params, asm_file_name, rewriter, fs, streams, ret, prev, calls>>

\* lines 60-80: both derived names
DerivePaths ==
    /\ pc = "derive"
    /\ filename_optimized' = DeriveOptimized(filename)
    /\ filename_copy' = DeriveCopy(filename)
    /\ pc' = "keep"
    /\ UNCHANGED <<registered, my_params, asm_file_name, rewriter, fs, streams,
                   ret, call, prev, calls>>

\* line 83
TestKeepFiles ==
    /\ pc = "keep"
    /\ \E k \in ReadKeepFiles :
          /\ call' = [call EXCEPT !.keep83 = IF k THEN "on" ELSE "off"]
          /\ pc' = IF k THEN "open_copy" ELSE "system"
    /\ UNCHANGED <<registered, my_params, asm_file_name, rewriter, fs, streams,
                   filename_optimized, filename_copy, ret, prev, calls>>

\* OpenCopy with the failure of fopen not ending the call
OpenCopyIgnoreFailure ==
    /\ pc = "open_copy"
    /\ \E ok \in BOOLEAN :
          IF ok
          THEN /\ fs' = FopenW(fs, CopyPath)
               /\ streams' = OpenStream("fp_copy", CopyPath)
               /\ pc' = "open_orig"
               /\ UNCHANGED call
          ELSE /\ call' = [call EXCEPT !.open_failed = "copy"]
               /\ pc' = "system"
               /\ UNCHANGED <<fs, streams>>
    /\ UNCHANGED <<registered, my_params, asm_file_name, rewriter, ret, prev, calls,
                   filename_optimized, filename_copy>>

\* lines 85-91: fopen(filename_copy, "w")
OpenCopy ==
    /\ pc = "open_copy"
    /\ \E ok \in BOOLEAN :
          IF ok
          THEN /\ fs' = FopenW(fs, CopyPath)
               /\ streams' = OpenStream("fp_copy", CopyPath)
               /\ pc' = "open_orig"
               /\ UNCHANGED <<call, filename_optimized, filename_copy>>
          ELSE /\ Return("no_copy", [call EXCEPT !.open_failed = "copy"])
               /\ UNCHANGED <<fs, streams>>
    /\ UNCHANGED <<registered, my_params, asm_file_name, rewriter, ret, prev, calls>>

\* lines 94-101: fopen(filename, "r")
OpenOrig ==
    /\ pc = "open_orig"
    /\ \E ok \in BOOLEAN :
          IF ok /\ Exists(filename)
          THEN /\ streams' = OpenStream("fp_orig", filename)
               /\ pc' = "backup_loop"
               /\ UNCHANGED <<call, filename_optimized, filename_copy>>
          ELSE /\ streams' = CloseStreams({"fp_copy"})
               /\ Return("no_orig", [call EXCEPT !.open_failed = "orig"])
    /\ UNCHANGED <<registered, my_params, asm_file_name, rewriter, fs, ret, prev, calls>>

\* one turn of while ((bytes_read = fread(..., from)) > 0) fwrite(..., to);
\* neither result is tested for an error
CopyChunk(from, to, done) ==
    \E r \in FreadResults(streams[from]) :
       IF r.n = 0
       THEN /\ pc' = done
            /\ streams' = [streams EXCEPT ![from].err = r.err]
            /\ call' = [call EXCEPT !.fault = @ \/ r.err]
            /\ UNCHANGED fs
       ELSE \E w \in FwriteResults(streams[to], r.n) :
               LET src == fs[streams[from].path]
                   pos == streams[from].pos
                   dst == streams[to].path
               IN /\ fs' = [fs EXCEPT ![dst] = @ \o SubSeq(src, pos + 1, pos + w.n)]
                  /\ streams' = [streams EXCEPT ![from].pos = pos + r.n,
                                                ![from].err = r.err,
                                                ![to].err = w.err]
                  /\ call' = [call EXCEPT !.fault = @ \/ r.err \/ w.err]
                  /\ UNCHANGED pc

\* lines 104-108
BackupLoop ==
    /\ pc = "backup_loop"
    /\ CopyChunk("fp_orig", "fp_copy", "backup_close")
    /\ UNCHANGED <<registered, my_params, asm_file_name, rewriter,
                   filename_optimized, filename_copy, ret, prev, calls>>

\* lines 110-111
BackupClose ==
    /\ pc = "backup_close"
    /\ streams' = CloseStreams({"fp_orig", "fp_copy"})
    /\ pc' = "system"
    /\ UNCHANGED <<registered, my_params, asm_file_name, rewriter, fs,
                   filename_optimized, filename_copy, ret, call, prev, calls>>

\* lines 114-124: the rewriter runs on filename and filename_optimized; it
\* may or may not leave its output, and exits with any status
RunRewriter ==
    /\ pc = "system"
    /\ \E status \in ExitStatuses, wrote \in BOOLEAN :
          LET out == Rewrite(rewriter, fs[filename])
              f == IF wrote THEN Put(fs, OptPath, out) ELSE fs
              c == [call EXCEPT !.invoked = TRUE, !.wrote = wrote,
                                !.written = out]
          IN /\ fs' = f
             /\ ret' = status
             /\ IF RewriterFailed(status)
                THEN Return("rewriter_failed", c)
                ELSE /\ pc' = "open_opt"
                     /\ call' = c
                     /\ UNCHANGED <<filename_optimized, filename_copy>>
    /\ UNCHANGED <<registered, my_params, asm_file_name, rewriter, streams, prev, calls>>

\* lines 126-132: fopen(filename_optimized, "r")
OpenOptimized ==
    /\ pc = "open_opt"
    /\ \E ok \in BOOLEAN :
          IF ok /\ Exists(OptPath)
          THEN /\ streams' = OpenStream("fp_opt", OptPath)
               /\ call' = [call EXCEPT !.optimized = fs[OptPath]]
               /\ pc' = "open_src"
               /\ UNCHANGED <<filename_optimized, filename_copy>>
          ELSE /\ Return("no_opt", [call EXCEPT !.open_failed = "opt"])
               /\ UNCHANGED streams
    /\ UNCHANGED <<registered, my_params, asm_file_name, rewriter, fs, ret, prev, calls>>

\* OpenSource without the fclose(fp_opt) of line 137
OpenSourceNoClose ==
    /\ pc = "open_src"
    /\ \E ok \in BOOLEAN :
          IF ok
          THEN /\ fs' = FopenW(fs, filename)
               /\ streams' = OpenStream("fp", filename)
               /\ call' = [call EXCEPT !.src_opened_w = TRUE]
               /\ pc' = "copy_loop"
               /\ UNCHANGED <<filename_optimized, filename_copy>>
          ELSE /\ Return("no_src", [call EXCEPT !.open_failed = "src"])
               /\ UNCHANGED <<fs, streams>>
    /\ UNCHANGED <<registered, my_params, asm_file_name, rewriter, ret, prev, calls>>

\* lines 134-141: fopen(filename, "w")
OpenSource ==
    /\ pc = "open_src"
    /\ \E ok \in BOOLEAN :
          IF ok
          THEN /\ fs' = FopenW(fs, filename)
               /\ streams' = OpenStream("fp", filename)
               /\ call' = [call EXCEPT !.src_opened_w = TRUE]
               /\ pc' = "copy_loop"
               /\ UNCHANGED <<filename_optimized, filename_copy>>
          ELSE /\ streams' = CloseStreams({"fp_opt"})
               /\ Return("no_src", [call EXCEPT !.open_failed = "src"])
               /\ UNCHANGED fs
    /\ UNCHANGED <<registered, my_params, asm_file_name, rewriter, ret, prev, calls>>

\* lines 143-148
ReplaceLoop ==
    /\ pc = "copy_loop"
    /\ CopyChunk("fp_opt", "fp", "cleanup")
    /\ UNCHANGED <<registered, my_params, asm_file_name, rewriter,
                   filename_optimized, filename_copy, ret, prev, calls>>

\* lines 150-155
Cleanup ==
    /\ pc = "cleanup"
    /\ streams' = CloseStreams({"fp", "fp_opt"})
    /\ \E k \in ReadKeepFiles :
          /\ fs' = IF RemoveOptimized(k) THEN Remove(fs, OptPath) ELSE fs
          /\ call' = [call EXCEPT !.keep152 = IF k THEN "on" ELSE "off"]
    /\ pc' = "free"
    /\ UNCHANGED <<registered, my_params, asm_file_name, rewriter,
                   filename_optimized, filename_copy, ret, prev, calls>>

\* lines 157-161: the three free() calls; freeing my_params a second time
\* either goes unnoticed or aborts the process
Finish ==
    /\ pc = "free"
    /\ IF my_params.valid
       THEN /\ my_params' = [my_params EXCEPT !.valid = FALSE]
            /\ Return("success", call)
       ELSE /\ \E detected \in BOOLEAN :
                  Return(IF detected THEN "aborted" ELSE "success", call)
            /\ UNCHANGED my_params
    /\ UNCHANGED <<registered, asm_file_name, rewriter, fs, streams, ret, prev, calls>>

Next ==
    \/ plugin_init
    \/ callback
    \/ CheckName
    \/ DerivePaths
    \/ TestKeepFiles
    \/ OpenCopy
    \/ OpenOrig
    \/ BackupLoop
    \/ BackupClose
    \/ RunRewriter
    \/ OpenOptimized
    \/ OpenSource
    \/ ReplaceLoop
    \/ Cleanup
    \/ Finish

Spec == Init /\ [][Next]_vars

\* ----------------------------------------------------------------- claims
\* a call of my_optimize_func has returned (or ended the process)
Returned == call.outcome \notin {"none", "running"}
\* the call got past the two skips
PastChecks == call.outcome \notin {"none", "running", "skip_none", "skip_suffix"}

\* the suffix test and the two derived names, as the specification words them
EndsInDotS(s) == Len(s) >= 2 /\ s[Len(s) - 1] = "." /\ s[Len(s)] = "s"
Stem(s) == SubSeq(s, 1, Len(s) - 2)
optimizedPath == Stem(filename) \o OptSuffix
backupPath == Stem(filename) \o CopySuffix

\* content of the source file when the call started, and now
Before == call.entry_fs[filename]
Now == fs[filename]

\* the call ran to line 157 with the rewriter's output written and no stream error
Clean(c) == c.outcome \in {"success", "aborted"} /\ c.wrote /\ ~c.fault

Idempotent(r) ==
    \A c \in SeqsUpTo({"x", "y"}, MaxContent) : Rewrite(r, Rewrite(r, c)) = Rewrite(r, c)

\* C1: after a call that ran to its end with every stream operation
\* succeeding and a rewriter that exited 0 and wrote its output, the source
\* holds exactly what the rewriter wrote; with keep_files read as off no
\* *.opt.s is left; with keep_files read as on *.copy.s holds the source's
\* content from before the call.
C1_SuccessReplaces ==
    (call.outcome = "success" /\ ret = 0 /\ call.wrote /\ ~call.fault) =>
        /\ Now = call.written
        /\ call.keep152 = "off" => optimizedPath \notin DOMAIN fs
        /\ call.keep83 = "on" => /\ backupPath \in DOMAIN fs
                                 /\ fs[backupPath] = Before

C1_Witness ==
    /\ call.outcome = "success" /\ call.wrote /\ ~call.fault
    /\ call.keep83 = "on" /\ call.keep152 = "on"
    /\ Before = <<"x", "x">>
    /\ Now = <<"y", "y">>
    /\ fs[backupPath] = <<"x", "x">>

\* C2: whenever a call that got past the skips returns, the source holds
\* either its content from before the call or the complete optimized content.
C2_OriginalOrComplete ==
    PastChecks => \/ Now = Before
                  \/ call.src_opened_w /\ Now = call.optimized

\* C3: when the rewriter returned a non-zero status, the source is what it was
\* before the call and was never opened for writing.
C3_RewriterFailureKeepsSource ==
    (Returned /\ call.invoked /\ ret # 0) =>
        /\ Now = Before
        /\ ~call.src_opened_w

C3_Witness ==
    /\ Returned /\ call.invoked /\ ret # 0
    /\ call.keep83 = "on"
    /\ call.wrote /\ call.written # Before
    /\ Now = Before

\* C4: with keep_files read as on, when fopen fails for the backup
\* (filename_copy for writing or filename for reading) the call returns with
\* the rewriter never run and the source as it was.
C4_BackupOpenFailureStops ==
    (Returned /\ call.keep83 = "on" /\ call.open_failed \in {"copy", "orig"}) =>
        /\ ~call.invoked
        /\ Now = Before

C4_Witness ==
    /\ Returned /\ call.keep83 = "on" /\ call.open_failed = "copy"
    /\ ~call.invoked
    /\ Before # <<>>

\* C5: for a NULL or empty name, /dev/null, or a name not ending in ".s",
\* the call changes no file (none created, modified or deleted) and never
\* runs the rewriter.
C5_SkipIsNoOp ==
    (Returned /\ (\/ asm_file_name.isNull
                  \/ asm_file_name.s = <<>>
                  \/ asm_file_name.s = DevNull
                  \/ ~EndsInDotS(asm_file_name.s))) =>
        /\ fs = call.entry_fs
        /\ ~call.invoked
        /\ DOMAIN streams = {}

C5_Witness ==
    /\ Returned
    /\ ~asm_file_name.isNull
    /\ asm_file_name.s = <<"s", "s">>
    /\ fs = call.entry_fs

\* C6: with an idempotent rewriter, a second clean call leaves the source
\* with the content the first clean call left.
C6_Idempotent ==
    (Returned /\ calls >= 2 /\ Idempotent(rewriter) /\ Clean(prev) /\ Clean(call)) =>
        Now = Before

C6_Witness ==
    /\ Returned /\ calls = 2 /\ rewriter = "ToY"
    /\ Clean(prev) /\ Clean(call)
    /\ Now = <<"y", "y">>

\* C7: with keep_files read as off, an *.opt.s file the rewriter produced
\* during the call is gone when the call returns, whatever the exit path.
C7_NoTemporaryLeft ==
    (PastChecks /\ call.keep83 = "off" /\ call.keep152 # "on" /\ call.wrote) =>
        optimizedPath \notin DOMAIN fs

\* C8: no FILE stream is open when a call returns.
C8_StreamsClosed ==
    Returned => DOMAIN streams = {}

C8_Witness ==
    /\ Returned /\ call.open_failed = "src"
    /\ call.keep83 = "on"
    /\ DOMAIN streams = {}

\* C9: after any call the parameter object built by plugin_init is still
\* valid and holds the flag plugin_init stored.
C9_ParamsSurvive ==
    Returned => my_params.valid /\ ReadKeepFiles = {my_params.keep_files}

\* C10 as stated: the bytes written into filename_copy are one more than the
\* len + 6 allocated (and those into filename_optimized one more than len + 5).
C10_Undersized ==
    filename_copy # NoBuf =>
        /\ Len(filename_copy.bytes) = (Len(filename) + 6) + 1
        /\ Len(filename_optimized.bytes) = (Len(filename) + 5) + 1

\* C10 amended: the bytes written into each derived name (the len - 2 stem,
\* the suffix and the NUL) are exactly the bytes allocated, len + 6 for
\* filename_copy and len + 5 for filename_optimized, and the names are the
\* stem followed by ".copy.s" and ".opt.s".
C10_ExactFit ==
    filename_copy # NoBuf =>
        /\ Len(filename_copy.bytes) = filename_copy.size
        /\ Len(filename_copy.bytes) = Len(filename) + 6
        /\ Len(filename_optimized.bytes) = filename_optimized.size
        /\ Len(filename_optimized.bytes) = Len(filename) + 5
        /\ CopyPath = backupPath
        /\ OptPath = optimizedPath

C10_Witness ==
    /\ filename = <<"s", ".", "s">>
    /\ filename_copy.size = 9
    /\ filename_copy.bytes = <<"s", ".", "c", "o", "p", "y", ".", "s", NUL>>

====
